---- MODULE Spec2Model ----
(***************************************************************************)
(* plant-seg napari widgets: output-name versioning (build_nice_name),     *)
(* the asynchronous execution wrapper (start_threading_process) and the    *)
(* pipeline DAG recorder it feeds; and the functional layer the widgets    *)
(* run in their workers: watershed, agglomeration, multicut and lifted     *)
(* multicut segmentation, label processing.                                *)
(*                                                                         *)
(* Layer names are TLA+ strings; Len, SubSeq and \o act on them as on      *)
(* Python str.  Python indices are 0-based, SubSeq is 1-based.             *)
(***************************************************************************)
EXTENDS Integers, Sequences, FiniteSets, TLC

VARIABLES
    base,        \* build_nice_name: the `base` argument of the last call
    new_suffix,  \* build_nice_name: the `new_suffix` argument of the last call
    nice,        \* build_nice_name: the value returned by the last call
    raised,      \* build_nice_name: TRUE iff the last call raised ValueError
    depth,       \* number of build_nice_name calls chained so far
    layers,      \* the viewer's layers: records [name, type, scale, metadata]
    ops,         \* per start_threading_process call: what on_done and the worker close over
    worker,      \* per call: the worker thread: "running", "finished" (the function
                 \* returned), "returned" (the signal is emitted) or "errored"
    pc,          \* per call: position in on_done: "idle", "notified", "recorded", "done"
    future,      \* per call: the Future handed back to the widget's caller
    queue,       \* `returned` signals emitted by workers, not yet delivered to on_done
    gui,         \* the call whose on_done the interactive thread is executing, 0 if none
    info,        \* show_info messages, in the order issued
    dag,         \* dag_manager: the mapping's steps, in insertion order
    dagOp,       \* history: the calls whose on_done called add_step, in that order
    completed,   \* history: the calls whose computation returned, in that order
    sync_errors, \* exceptions widgets raised to their caller before starting a worker
    call,        \* functional layer: the function called and its arguments
    heap,        \* functional layer: the arrays in memory, by reference
    trace,       \* functional layer: the library calls the function made, in order
    outcome      \* functional layer: "pending", then what the call returned or raised

nameVars == <<base, new_suffix, nice, raised, depth>>

asyncVars == <<layers, ops, worker, pc, future, queue, gui, info, dag, dagOp, completed>>

segVars == <<call, heap, trace, outcome>>

vars == <<base, new_suffix, nice, raised, depth,
          layers, ops, worker, pc, future, queue, gui, info, dag, dagOp, completed,
          sync_errors, call, heap, trace, outcome>>

-----------------------------------------------------------------------------
(* Bounds *)

\* longest chain of build_nice_name calls explored from one root name
MaxChain == 4

\* largest version counter the versioning claims are stated for
MaxVersion == 100

\* number of widget invocations (start_threading_process calls) in one run
MaxOps == 2

\* number of widget invocations in one run of the replay scenario
MaxReplayOps == 4

\* number of direct start_threading_process calls in one run of the wrapper scenario
MaxDirectOps == 2

\* number of voxels of the volumes the functional layer is called on
VolLen == 8

\* largest label of a superpixel or segmentation map
MaxLabel == 3

\* largest number of runs of equal labels in a superpixel or segmentation map
MaxRuns == 3

-----------------------------------------------------------------------------
(* Python str / int primitives used by utils.py *)

Digits == <<"0", "1", "2", "3", "4", "5", "6", "7", "8", "9">>

Min(S) == CHOOSE m \in S : \A n \in S : m <= n

\* s[i:j] for 0 <= i, 0 <= j (Python slice with non-negative bounds)
Slice(s, i, j) == SubSeq(s, i + 1, IF j > Len(s) THEN Len(s) ELSE j)

\* s.endswith(t)
EndsWith(s, t) == Len(s) >= Len(t) /\ SubSeq(s, Len(s) - Len(t) + 1, Len(s)) = t

\* s.find(sub): lowest 0-based index of an occurrence of sub in s, -1 if none
Find(s, sub) ==
    LET hits == {i \in 0..(Len(s) - Len(sub)) : SubSeq(s, i + 1, i + Len(sub)) = sub}
    IN  IF hits = {} THEN -1 ELSE Min(hits)

\* s.split('_'): the segments between the separators, left to right
RECURSIVE Split(_)
Split(s) ==
    LET i == Find(s, "_")
    IN  IF i = -1 THEN <<s>>
        ELSE <<Slice(s, 0, i)>> \o Split(Slice(s, i + 1, Len(s)))

\* '_'.join(parts)
RECURSIVE Join(_)
Join(parts) ==
    IF Len(parts) = 0 THEN ""
    ELSE IF Len(parts) = 1 THEN parts[1]
    ELSE parts[1] \o "_" \o Join(Tail(parts))

IsDigit(c) == \E d \in 1..10 : Digits[d] = c

DigitVal(c) == (CHOOSE d \in 1..10 : Digits[d] = c) - 1

AllDigits(s) == Len(s) > 0 /\ \A i \in 1..Len(s) : IsDigit(SubSeq(s, i, i))

\* The characters int() skips at both ends of its argument, for names over
\* the Latin-1 characters: space, tab, line feed, vertical tab (0x0B), form
\* feed, carriage return, next line (0x85) and no-break space (0xA0); the last
\* three and the vertical tab are written as the characters themselves. The
\* separators 0x1C to 0x1F are not skipped: int() raises on them.
Whitespace == {" ", "\t", "\n", "\r", "\f", "", "", " "}

\* the argument of int() without the whitespace int() skips before its sign
\* and after its last digit (the code calls no strip(); int() does this)
IntSkipSpace(s) ==
    LET keep == {i \in 1..Len(s) : SubSeq(s, i, i) \notin Whitespace}
    IN  IF keep = {} THEN ""
        ELSE SubSeq(s, Min(keep), CHOOSE m \in keep : \A n \in keep : n <= m)

\* the text int() reads, without its optional sign
IntBody(s) ==
    LET t == IntSkipSpace(s)
    IN  IF Len(t) > 0 /\ SubSeq(t, 1, 1) \in {"+", "-"} THEN SubSeq(t, 2, Len(t)) ELSE t

\* decimal digits, with single underscores allowed between two digits
IsNumeral(b) ==
    /\ Len(b) > 0
    /\ \A i \in 1..Len(b) : IsDigit(SubSeq(b, i, i)) \/ SubSeq(b, i, i) = "_"
    /\ IsDigit(SubSeq(b, 1, 1))
    /\ IsDigit(SubSeq(b, Len(b), Len(b)))
    /\ \A i \in 1..(Len(b) - 1) : ~(SubSeq(b, i, i) = "_" /\ SubSeq(b, i + 1, i + 1) = "_")

\* the digits of a numeral, its grouping underscores removed
RECURSIVE WithoutUnderscores(_)
WithoutUnderscores(b) ==
    LET i == Find(b, "_")
    IN  IF i = -1 THEN b
        ELSE Slice(b, 0, i) \o WithoutUnderscores(Slice(b, i + 1, Len(b)))

\* sys.int_max_str_digits: the most digits int() reads from a string and
\* str() writes for an int (default of CPython 3.11)
IntMaxStrDigits == 4300

\* int(s) strips surrounding whitespace and accepts an optional sign followed
\* by at most IntMaxStrDigits decimal digits, single underscores allowed
\* between digits; anything else raises ValueError
IntRaises(s) ==
    LET b == IntBody(s)
    IN  \/ ~IsNumeral(b)
        \/ Len(b) > IntMaxStrDigits /\ Len(WithoutUnderscores(b)) > IntMaxStrDigits

\* A Python int has no bound: it is kept as its sign and its decimal digits.
\* a digit string without its leading zeros
Canonical(d) ==
    LET nonzero == {i \in 1..Len(d) : SubSeq(d, i, i) # "0"}
    IN  IF nonzero = {} THEN "0" ELSE SubSeq(d, Min(nonzero), Len(d))

\* the magnitude of int(s)
IntDigits(s) == Canonical(WithoutUnderscores(IntBody(s)))

\* int(s) < 0
IntNegative(s) == SubSeq(IntSkipSpace(s), 1, 1) = "-" /\ IntDigits(s) # "0"

\* c * n
RECURSIVE Repeat(_, _)
Repeat(c, n) ==
    IF n <= 0 THEN ""
    ELSE LET half == Repeat(c, n \div 2)
         IN  half \o half \o (IF n % 2 = 1 THEN c ELSE "")

AllNines(d) == \A i \in 1..Len(d) : SubSeq(d, i, i) = "9"

\* the magnitude d plus one
SuccDigits(d) ==
    LET not9 == {i \in 1..Len(d) : SubSeq(d, i, i) # "9"}
        p == CHOOSE m \in not9 : \A n \in not9 : n <= m
    IN  IF not9 = {} THEN "1" \o Repeat("0", Len(d))
        ELSE SubSeq(d, 1, p - 1) \o Digits[DigitVal(SubSeq(d, p, p)) + 2]
                 \o Repeat("0", Len(d) - p)

\* the magnitude d minus one, for d other than "0"
PredDigits(d) ==
    LET not0 == {i \in 1..Len(d) : SubSeq(d, i, i) # "0"}
        p == CHOOSE m \in not0 : \A n \in not0 : n <= m
    IN  Canonical(SubSeq(d, 1, p - 1) \o Digits[DigitVal(SubSeq(d, p, p))]
                      \o Repeat("9", Len(d) - p))

\* f'{int(s)}'
IntRepr(s) == IF IntNegative(s) THEN "-" \o IntDigits(s) ELSE IntDigits(s)

\* f'{int(s) + 1}'
IntPlusOne(s) ==
    IF IntNegative(s)
    THEN IF IntDigits(s) = "1" THEN "0" ELSE "-" \o PredDigits(IntDigits(s))
    ELSE SuccDigits(IntDigits(s))

\* f'{int(s) + 1}' raises ValueError: the sum has more than IntMaxStrDigits digits
IntPlusOneRaises(s) ==
    /\ ~IntNegative(s)
    /\ Len(IntDigits(s)) = IntMaxStrDigits
    /\ AllNines(IntDigits(s))

\* f'{n}' for a small int n
RECURSIVE NatStr(_)
NatStr(n) == IF n < 10 THEN Digits[n + 1] ELSE NatStr(n \div 10) \o Digits[(n % 10) + 1]

IntStr(n) == IF n < 0 THEN "-" \o NatStr(0 - n) ELSE NatStr(n)

-----------------------------------------------------------------------------
(* utils.py: _find_version, build_nice_name *)

\* current_version[1:-1]
VersionDigits(current_version) == SubSeq(current_version, 2, Len(current_version) - 1)

\* _find_version without `current_version += 1`
find_version_no_increment(old_suffix, suffix) ==
    LET s_idx == Find(old_suffix, suffix)
        v_idx == s_idx + Len(suffix)
        kept == Slice(old_suffix, 0, v_idx)
        current_version == Slice(old_suffix, v_idx, Len(old_suffix))
    IN  IF s_idx /= -1
        THEN IF current_version = ""
             THEN [raises |-> FALSE, suffix |-> kept, version |-> "[" \o IntStr(0) \o "]"]
             ELSE IF IntRaises(VersionDigits(current_version))
                  THEN [raises |-> TRUE, suffix |-> "", version |-> ""]
                  ELSE [raises |-> FALSE, suffix |-> kept,
                        version |-> "[" \o IntRepr(VersionDigits(current_version)) \o "]"]
        ELSE [raises |-> FALSE, suffix |-> old_suffix \o "_" \o suffix, version |-> ""]

\* _find_version writing the counter without its brackets: f'{current_version}'
find_version_unbracketed(old_suffix, suffix) ==
    LET s_idx == Find(old_suffix, suffix)
        v_idx == s_idx + Len(suffix)
        kept == Slice(old_suffix, 0, v_idx)
        current_version == Slice(old_suffix, v_idx, Len(old_suffix))
    IN  IF s_idx /= -1
        THEN IF current_version = ""
             THEN [raises |-> FALSE, suffix |-> kept, version |-> IntStr(0 + 1)]
             ELSE IF \/ IntRaises(VersionDigits(current_version))
                     \/ IntPlusOneRaises(VersionDigits(current_version))
                  THEN [raises |-> TRUE, suffix |-> "", version |-> ""]
                  ELSE [raises |-> FALSE, suffix |-> kept,
                        version |-> IntPlusOne(VersionDigits(current_version))]
        ELSE [raises |-> FALSE, suffix |-> old_suffix \o "_" \o suffix, version |-> ""]

\* _find_version(old_suffix, new_suffix) -> (new_suffix, version), or ValueError
find_version(old_suffix, suffix) ==
    LET s_idx == Find(old_suffix, suffix)
        v_idx == s_idx + Len(suffix)
        kept == Slice(old_suffix, 0, v_idx)
        current_version == Slice(old_suffix, v_idx, Len(old_suffix))
    IN  IF s_idx /= -1
        THEN IF current_version = ""
             THEN [raises |-> FALSE, suffix |-> kept, version |-> "[" \o IntStr(0 + 1) \o "]"]
             ELSE IF \/ IntRaises(VersionDigits(current_version))
                     \/ IntPlusOneRaises(VersionDigits(current_version))
                  THEN [raises |-> TRUE, suffix |-> "", version |-> ""]
                  ELSE [raises |-> FALSE, suffix |-> kept,
                        version |-> "[" \o IntPlusOne(VersionDigits(current_version)) \o "]"]
        ELSE [raises |-> FALSE, suffix |-> old_suffix \o "_" \o suffix, version |-> ""]

\* build_nice_name(base, new_suffix) -> str, or ValueError
build_nice_name(b, suffix) ==
    IF Find(b, "_") = -1
    THEN [raises |-> FALSE, name |-> b \o "_" \o suffix]
    ELSE LET parts == Split(b)
             old_suffix == parts[Len(parts)]
             base_without_suffix == Join(SubSeq(parts, 1, Len(parts) - 1))
             fv == find_version(old_suffix, suffix)
         IN  IF fv.raises
             THEN [raises |-> TRUE, name |-> ""]
             ELSE [raises |-> FALSE,
                   name |-> base_without_suffix \o "_" \o fv.suffix \o fv.version]

-----------------------------------------------------------------------------
(* The operation suffixes the widgets pass to build_nice_name *)

WidgetSuffixes == {"dtWS", "GASP", "MutexWS", "MultiCut", "LiftedMultiCut", "NucleiSegFix"}

\* layer names a chain of widget applications may start from
RootNames == {"raw", "raw_dtWS[9]", "a_b_GASP[99]", "pred_x"}

\* root layer names without an underscore: a file stem, the empty name, a stem
\* that is itself an operation suffix, a stem that carries a bracketed number
PlainRootNames == {"raw", "", "GASP", "x[1]"}

-----------------------------------------------------------------------------
(* Python dict helpers *)

NoneValue == "None"

\* d1.update(d2): the keys of d2 override those of d1
DictUpdate(d1, d2) ==
    [k \in (DOMAIN d1 \cup DOMAIN d2) |-> IF k \in DOMAIN d2 THEN d2[k] ELSE d1[k]]

Range(f) == {f[i] : i \in DOMAIN f}

\* A dict whose insertion order matters is written as its items in insertion
\* order, <<<<key, value>>, ...>>.
\* list(items.keys())
Keys(items) == [i \in 1..Len(items) |-> items[i][1]]

\* the mapping the items denote: a later item overrides an earlier one
Dict(items) ==
    [k \in {items[i][1] : i \in 1..Len(items)} |->
        items[CHOOSE i \in 1..Len(items) :
                /\ items[i][1] = k
                /\ \A j \in 1..Len(items) : items[j][1] = k => j <= i][2]]

-----------------------------------------------------------------------------
(* The viewer's layers the widgets are invoked on *)

\* layers present before any widget has run
InitialLayers ==
    { [name |-> "raw", type |-> "image", scale |-> "(1.0, 1.0, 1.0)",
       metadata |-> [original_voxel_size |-> "(0.25, 0.1, 0.1)", voxel_size_unit |-> "um",
                     root_name |-> "raw", original_file |-> "raw.h5"]],
      [name |-> "sp", type |-> "labels", scale |-> "(1.0, 1.0, 1.0)",
       metadata |-> [root_name |-> "sp"]],
      [name |-> "pts", type |-> "points", scale |-> "(1.0, 1.0, 1.0)",
       metadata |-> [root_name |-> "pts"]] }

\* magicgui offers, for a parameter annotated Image / Labels / Layer, the
\* layers of that type
ImageLayers == {l \in layers : l.type = "image"}
LabelsLayers == {l \in layers : l.type = "labels"}

\* the data array of a layer, named after the layer that holds it
Data(layer) == "data:" \o layer.name

StackedChoices == {"2D", "3D"}

\* widget_dt_ws is run with the defaults of stacked and use_pixel_pitch and
\* with both changed
WatershedChoices == {<<"2D", FALSE>>, <<"3D", TRUE>>}
ModeChoices == {"GASP", "MutexWS", "MultiCut"}

-----------------------------------------------------------------------------
(* utils.py: layer_properties *)

keys_to_save == {"original_voxel_size", "voxel_size_unit", "root_name"}

\* layer_properties handing the layer's whole metadata on
layer_properties_all_metadata(name, scale, metadata) ==
    [name |-> name,
     scale |-> scale,
     metadata |-> metadata]

\* `metadata is None`; a dict is never written as the string NoneValue is
IsNone(metadata) == ToString(metadata) = ToString(NoneValue)

\* lines 46-52; metadata is a dict or NoneValue
layer_properties(name, scale, metadata) ==
    [name |-> name,
     scale |-> scale,
     metadata |-> IF ~IsNone(metadata)
                  THEN [key \in (keys_to_save \cap DOMAIN metadata) |-> metadata[key]]
                  ELSE <<>>]

-----------------------------------------------------------------------------
(* dag_manager: the pipeline DAG recorder *)

\* The DAG is an ordered mapping from output key to step, kept as the sequence
\* of its entries in insertion order; no two entries have the same output_key.

\* the position of the entry under output_key, 0 when there is none
KeyIndex(d, output_key) ==
    LET same == {i \in 1..Len(d) : d[i].output_key = output_key}
    IN  IF same = {} THEN 0 ELSE CHOOSE i \in same : TRUE

\* dag_manager.add_step(function, input_keys, output_key, static_params, step_name):
\* a new key is appended; the recorder enforces no uniqueness, so a key that is
\* already in the mapping keeps its place and gets the new step
add_step(d, function, input_keys, output_key, static_params, step_name) ==
    LET step == [function |-> function,
                 input_keys |-> input_keys,
                 output_key |-> output_key,
                 static_params |-> static_params,
                 step_name |-> step_name]
        k == KeyIndex(d, output_key)
    IN  IF k = 0 THEN Append(d, step) ELSE [d EXCEPT ![k] = step]

\* the keys needed to recompute the keys K: K, the inputs of the steps that
\* produce them, and so on backward
RECURSIVE NeededKeys(_, _)
NeededKeys(d, K) ==
    LET more == K \cup UNION {Range(d[i].input_keys) :
                                i \in {j \in 1..Len(d) : d[j].output_key \in K}}
    IN  IF more = K THEN K ELSE NeededKeys(d, more)

\* the minimal subgraph for output_key: the entries (positions in the mapping)
\* reached by walking backward from output_key through input_keys, down to
\* the inputs no step produces; each needed key has one entry, and the
\* entries are replayed in insertion order
Subgraph(d, output_key) ==
    {i \in 1..Len(d) : d[i].output_key \in NeededKeys(d, {output_key})}

-----------------------------------------------------------------------------
(* utils.py: start_threading_process *)

StartedInfo(step_name) ==
    "Napari - PlantSeg info: widget " \o step_name \o " computation started"

CompleteInfo(step_name) ==
    "Napari - PlantSeg info: widget " \o step_name \o " computation complete"

PendingFuture == [state |-> "pending"]

\* the value the worker returns: func applied to the merged keyword arguments
Result(op) == [func |-> op.func, kwargs |-> op.kwargs]

\* start_threading_process calling func and on_done itself before returning
start_threading_process_blocking(func, runtime_kwargs, statics_kwargs, out_name, input_keys, layer_kwarg, layer_type, step_name, skip_dag) ==
    LET op == [func |-> func,
               runtime_kwargs |-> runtime_kwargs,
               kwargs |-> DictUpdate(Dict(runtime_kwargs), statics_kwargs),
               statics_kwargs |-> statics_kwargs,
               out_name |-> out_name,
               input_keys |-> input_keys,
               layer_kwarg |-> layer_kwarg,
               layer_type |-> layer_type,
               step_name |-> step_name,
               skip_dag |-> skip_dag]
    IN  /\ ops' = Append(ops, op)
        /\ worker' = Append(worker, "returned")
        /\ completed' = Append(completed, Len(ops) + 1)
        /\ pc' = Append(pc, "done")
        /\ info' = info \o <<StartedInfo(step_name), CompleteInfo(step_name)>>
        /\ dag' = add_step(dag, func, input_keys, out_name, statics_kwargs, step_name)
        /\ dagOp' = Append(dagOp, Len(ops) + 1)
        /\ future' = Append(future, [state |-> "finished",
                                     result |-> <<Result(op), layer_kwarg, layer_type>>])
        /\ layers' = layers \cup {[name |-> layer_kwarg.name, type |-> layer_type,
                                   scale |-> layer_kwarg.scale,
                                   metadata |-> layer_kwarg.metadata]}
        /\ UNCHANGED <<nameVars, segVars, sync_errors>>
        /\ UNCHANGED <<queue, gui>>

\* lines 25-28 and 39-43: merge the arguments, create the future, connect
\* on_done to the worker's `returned` signal, start the worker, notify, return
start_threading_process(func, runtime_kwargs, statics_kwargs, out_name, input_keys, layer_kwarg, layer_type, step_name, skip_dag) ==
    /\ ops' = Append(ops, [func |-> func,
                           runtime_kwargs |-> runtime_kwargs,
                           kwargs |-> DictUpdate(Dict(runtime_kwargs), statics_kwargs),
                           statics_kwargs |-> statics_kwargs,
                           out_name |-> out_name,
                           input_keys |-> input_keys,
                           layer_kwarg |-> layer_kwarg,
                           layer_type |-> layer_type,
                           step_name |-> step_name,
                           skip_dag |-> skip_dag])
    /\ future' = Append(future, PendingFuture)
    /\ worker' = Append(worker, "running")
    /\ pc' = Append(pc, "idle")
    /\ info' = Append(info, StartedInfo(step_name))
    /\ UNCHANGED <<nameVars, segVars, sync_errors>>
    /\ UNCHANGED <<layers, queue, gui, dag, dagOp, completed>>

\* the worker's function returns in the worker's thread: the computation has
\* completed, its `returned` signal is not emitted yet
WorkerReturn(o) ==
    /\ worker[o] = "running"
    /\ worker' = [worker EXCEPT ![o] = "finished"]
    /\ completed' = Append(completed, o)
    /\ UNCHANGED <<nameVars, segVars, sync_errors>>
    /\ UNCHANGED <<layers, ops, pc, future, queue, gui, info, dag, dagOp>>

\* the worker's thread emits `returned` with the result: the call of on_done
\* connected at line 40 is queued for the interactive thread
EmitReturned(o) ==
    /\ worker[o] = "finished"
    /\ worker' = [worker EXCEPT ![o] = "returned"]
    /\ queue' = Append(queue, o)
    /\ UNCHANGED <<nameVars, segVars, sync_errors>>
    /\ UNCHANGED <<layers, ops, pc, future, gui, info, dag, dagOp, completed>>

\* on_done connected to a signal that an error emits as well
WorkerRaise_calls_on_done(o) ==
    /\ worker[o] = "running"
    /\ worker' = [worker EXCEPT ![o] = "errored"]
    /\ queue' = Append(queue, o)
    /\ UNCHANGED <<nameVars, segVars, sync_errors>>
    /\ UNCHANGED <<layers, ops, pc, future, gui, info, dag, dagOp, completed>>

\* the worker's function raises: only `errored` is emitted, and nothing is
\* connected to it
WorkerRaise(o) ==
    /\ worker[o] = "running"
    /\ worker' = [worker EXCEPT ![o] = "errored"]
    /\ UNCHANGED <<nameVars, segVars, sync_errors>>
    /\ UNCHANGED <<layers, ops, pc, future, queue, gui, info, dag, dagOp, completed>>

\* on_done, line 30: the interactive thread takes the oldest queued signal
OnDoneNotify(o) ==
    /\ gui = 0
    /\ queue /= <<>>
    /\ o = Head(queue)
    /\ queue' = Tail(queue)
    /\ gui' = o
    /\ info' = Append(info, CompleteInfo(ops[o].step_name))
    /\ pc' = [pc EXCEPT ![o] = "notified"]
    /\ UNCHANGED <<nameVars, segVars, sync_errors>>
    /\ UNCHANGED <<layers, ops, worker, future, dag, dagOp, completed>>

\* on_done recording nothing when skip_dag is set
OnDoneAddStep_skip_omits_step(o) ==
    /\ gui = o
    /\ pc[o] = "notified"
    /\ IF ops[o].skip_dag
       THEN UNCHANGED <<dag, dagOp>>
       ELSE /\ dag' = add_step(dag, ops[o].func, ops[o].input_keys, ops[o].out_name,
                                ops[o].statics_kwargs, ops[o].step_name)
            /\ dagOp' = Append(dagOp, o)
    /\ pc' = [pc EXCEPT ![o] = "recorded"]
    /\ UNCHANGED <<nameVars, segVars, sync_errors>>
    /\ UNCHANGED <<layers, ops, worker, future, queue, gui, info, completed>>

\* on_done, lines 31-35
OnDoneAddStep(o) ==
    /\ gui = o
    /\ pc[o] = "notified"
    /\ LET func_ == IF ~ops[o].skip_dag THEN ops[o].func ELSE "identity"
       IN  dag' = add_step(dag, func_, ops[o].input_keys, ops[o].out_name,
                           ops[o].statics_kwargs, ops[o].step_name)
    /\ dagOp' = Append(dagOp, o)
    /\ pc' = [pc EXCEPT ![o] = "recorded"]
    /\ UNCHANGED <<nameVars, segVars, sync_errors>>
    /\ UNCHANGED <<layers, ops, worker, future, queue, gui, info, completed>>

\* on_done, lines 36-37; the viewer shows the delivered layer
OnDoneSetResult(o) ==
    /\ gui = o
    /\ pc[o] = "recorded"
    /\ future' = [future EXCEPT ![o] =
                    [state |-> "finished",
                     result |-> <<Result(ops[o]), ops[o].layer_kwarg, ops[o].layer_type>>]]
    /\ layers' = layers \cup {[name |-> ops[o].layer_kwarg.name,
                               type |-> ops[o].layer_type,
                               scale |-> ops[o].layer_kwarg.scale,
                               metadata |-> ops[o].layer_kwarg.metadata]}
    /\ gui' = 0
    /\ pc' = [pc EXCEPT ![o] = "done"]
    /\ UNCHANGED <<nameVars, segVars, sync_errors>>
    /\ UNCHANGED <<ops, worker, queue, info, dag, dagOp, completed>>

-----------------------------------------------------------------------------
(* segmentation.py: the widgets *)

\* a widget runs on the interactive thread, between callbacks
WidgetReady == gui = 0

\* build_nice_name raising ValueError out of the widget, before any worker,
\* future, notification or DAG step (utils.py line 61 through the widget's
\* first statement)
BuildNameError(widget, base_name) ==
    [widget |-> widget, error |-> "ValueError", base |-> base_name]

generic_clustering(image, labels, beta, minsize, name, agg_func) ==
    LET out == build_nice_name(image.name, name)
    IN  IF out.raises
        THEN /\ sync_errors' = sync_errors \cup {BuildNameError("_generic_clustering", image.name)}
             /\ UNCHANGED <<nameVars, asyncVars, segVars>>
        ELSE start_threading_process(
                    agg_func,
                    <<<<"boundary_pmaps", Data(image)>>, <<"superpixels", Data(labels)>>>>,
                    [beta |-> beta, post_minsize |-> minsize],
                    out.name,
                    <<image.name, labels.name>>,
                    layer_properties(out.name, image.scale, image.metadata),
                    "labels",
                    name \o " Clustering",
                    FALSE)

widget_agglomeration(image, labels, mode) ==
    /\ WidgetReady
    /\ LET func == IF mode = "GASP" THEN "gasp"
                   ELSE IF mode = "MutexWS" THEN "mutex_ws"
                   ELSE "multicut"
       IN  generic_clustering(image, labels, "0.6", 100, mode, func)

\* line 104: raise ValueError(f'{nuclei} must be either an image or a labels layer')
NucleiTypeError(nuclei) ==
    [widget |-> "widget_lifted_multicut", error |-> "ValueError", nuclei |-> nuclei.name]

\* widget_lifted_multicut taking every nuclei layer that is not an Image for a
\* segmentation
widget_lifted_multicut_no_type_check(image, nuclei, labels) ==
    /\ WidgetReady
    /\ LET lmc == IF nuclei.type = "image" THEN "lifted_multicut_from_nuclei_pmaps"
                  ELSE "lifted_multicut_from_nuclei_segmentation"
           out == build_nice_name(image.name, "LiftedMultiCut")
           runtime_kwargs ==
               IF nuclei.type = "image"
               THEN <<<<"boundary_pmaps", Data(image)>>, <<"nuclei_pmaps", Data(nuclei)>>,
                      <<"superpixels", Data(labels)>>>>
               ELSE <<<<"boundary_pmaps", Data(image)>>, <<"nuclei_seg", Data(nuclei)>>,
                      <<"superpixels", Data(labels)>>>>
       IN  IF out.raises
           THEN /\ sync_errors' = sync_errors \cup {BuildNameError("widget_lifted_multicut", image.name)}
                /\ UNCHANGED <<nameVars, asyncVars, segVars>>
           ELSE start_threading_process(
                       lmc,
                       runtime_kwargs,
                       [beta |-> "0.5", post_minsize |-> 100],
                       out.name,
                       <<image.name, nuclei.name, labels.name>>,
                       layer_properties(out.name, image.scale, image.metadata),
                       "labels",
                       "Lifted Multicut Clustering",
                       FALSE)

\* lines 97-104 choose the function by the nuclei layer's type or raise
\* ValueError; lines 106-124 then name the output and start the worker
widget_lifted_multicut(image, nuclei, labels) ==
    /\ WidgetReady
    /\ IF nuclei.type \notin {"image", "labels"}
       THEN /\ sync_errors' = sync_errors \cup {NucleiTypeError(nuclei)}
            /\ UNCHANGED <<nameVars, asyncVars, segVars>>
       ELSE
       LET lmc == IF nuclei.type = "image" THEN "lifted_multicut_from_nuclei_pmaps"
                  ELSE "lifted_multicut_from_nuclei_segmentation"
           out == build_nice_name(image.name, "LiftedMultiCut")
           runtime_kwargs ==
               IF nuclei.type = "image"
               THEN <<<<"boundary_pmaps", Data(image)>>, <<"nuclei_pmaps", Data(nuclei)>>,
                      <<"superpixels", Data(labels)>>>>
               ELSE <<<<"boundary_pmaps", Data(image)>>, <<"nuclei_seg", Data(nuclei)>>,
                      <<"superpixels", Data(labels)>>>>
       IN  IF out.raises
           THEN /\ sync_errors' = sync_errors \cup {BuildNameError("widget_lifted_multicut", image.name)}
                /\ UNCHANGED <<nameVars, asyncVars, segVars>>
           ELSE start_threading_process(
                       lmc,
                       runtime_kwargs,
                       [beta |-> "0.5", post_minsize |-> 100],
                       out.name,
                       <<image.name, nuclei.name, labels.name>>,
                       layer_properties(out.name, image.scale, image.metadata),
                       "labels",
                       "Lifted Multicut Clustering",
                       FALSE)

widget_dt_ws(image, stacked, use_pixel_pitch) ==
    /\ WidgetReady
    /\ LET out == build_nice_name(image.name, "dtWS")
           stacked_ == IF stacked = "3D" THEN FALSE ELSE TRUE
           pixel_pitch == IF use_pixel_pitch THEN "(1, 1, 1)" ELSE NoneValue
       IN  IF out.raises
           THEN /\ sync_errors' = sync_errors \cup {BuildNameError("widget_dt_ws", image.name)}
                /\ UNCHANGED <<nameVars, asyncVars, segVars>>
           ELSE start_threading_process(
                       "dtws_wrapper",
                       <<<<"boundary_pmaps", Data(image)>>>>,
                       [threshold |-> "0.5", min_size |-> 100, stacked |-> stacked_,
                        sigma_seeds |-> "0.2", sigma_weights |-> "2.0", alpha |-> "1.0",
                        pixel_pitch |-> pixel_pitch, apply_nonmax_suppression |-> FALSE,
                        nuclei |-> FALSE],
                       out.name,
                       <<image.name>>,
                       layer_properties(out.name, image.scale, image.metadata),
                       "labels",
                       "Watershed Segmentation",
                       FALSE)

widget_simple_dt_ws(image, stacked) ==
    /\ WidgetReady
    /\ LET out == build_nice_name(image.name, "dtWS")
           stacked_ == IF stacked = "3D" THEN FALSE ELSE TRUE
       IN  IF out.raises
           THEN /\ sync_errors' = sync_errors \cup {BuildNameError("widget_simple_dt_ws", image.name)}
                /\ UNCHANGED <<nameVars, asyncVars, segVars>>
           ELSE start_threading_process(
                       "dtws_wrapper",
                       <<<<"boundary_pmaps", Data(image)>>>>,
                       [threshold |-> "0.5", min_size |-> 100, stacked |-> stacked_,
                        pixel_pitch |-> NoneValue],
                       out.name,
                       <<image.name>>,
                       layer_properties(out.name, image.scale, image.metadata),
                       "labels",
                       "Watershed Segmentation",
                       FALSE)

\* widget_fix_over_under_segmentation_from_nuclei listing the boundary layer
\* first in inputs_names while passing its data last
widget_fix_over_under_segmentation_from_nuclei_boundary_first(cell_segmentation, nuclei_segmentation, has_boundary, boundary_pmaps) ==
    /\ WidgetReady
    /\ LET out == build_nice_name(cell_segmentation.name, "NucleiSegFix")
           inputs_names ==
               IF has_boundary
               THEN <<boundary_pmaps.name, cell_segmentation.name, nuclei_segmentation.name>>
               ELSE <<cell_segmentation.name, nuclei_segmentation.name>>
           func_kwargs ==
               IF has_boundary
               THEN <<<<"cell_seg", Data(cell_segmentation)>>,
                      <<"nuclei_seg", Data(nuclei_segmentation)>>,
                      <<"boundary", Data(boundary_pmaps)>>>>
               ELSE <<<<"cell_seg", Data(cell_segmentation)>>,
                      <<"nuclei_seg", Data(nuclei_segmentation)>>>>
       IN  IF out.raises
           THEN /\ sync_errors' = sync_errors \cup {BuildNameError("widget_fix_over_under_segmentation_from_nuclei", cell_segmentation.name)}
                /\ UNCHANGED <<nameVars, asyncVars, segVars>>
           ELSE start_threading_process(
                       "fix_over_under_segmentation_from_nuclei",
                       func_kwargs,
                       [threshold_merge |-> "0.33", threshold_split |-> "0.66"],
                       out.name,
                       inputs_names,
                       layer_properties(out.name, cell_segmentation.scale,
                                        cell_segmentation.metadata),
                       "labels",
                       "Fix Over / Under segmentation",
                       FALSE)

\* boundary_pmaps is an image layer or absent (has_boundary = FALSE)
widget_fix_over_under_segmentation_from_nuclei(cell_segmentation, nuclei_segmentation, has_boundary, boundary_pmaps) ==
    /\ WidgetReady
    /\ LET out == build_nice_name(cell_segmentation.name, "NucleiSegFix")
           inputs_names ==
               IF has_boundary
               THEN <<cell_segmentation.name, nuclei_segmentation.name, boundary_pmaps.name>>
               ELSE <<cell_segmentation.name, nuclei_segmentation.name>>
           func_kwargs ==
               IF has_boundary
               THEN <<<<"cell_seg", Data(cell_segmentation)>>,
                      <<"nuclei_seg", Data(nuclei_segmentation)>>,
                      <<"boundary", Data(boundary_pmaps)>>>>
               ELSE <<<<"cell_seg", Data(cell_segmentation)>>,
                      <<"nuclei_seg", Data(nuclei_segmentation)>>>>
       IN  IF out.raises
           THEN /\ sync_errors' = sync_errors \cup {BuildNameError("widget_fix_over_under_segmentation_from_nuclei", cell_segmentation.name)}
                /\ UNCHANGED <<nameVars, asyncVars, segVars>>
           ELSE start_threading_process(
                       "fix_over_under_segmentation_from_nuclei",
                       func_kwargs,
                       [threshold_merge |-> "0.33", threshold_split |-> "0.66"],
                       out.name,
                       inputs_names,
                       layer_properties(out.name, cell_segmentation.scale,
                                        cell_segmentation.metadata),
                       "labels",
                       "Fix Over / Under segmentation",
                       FALSE)

-----------------------------------------------------------------------------
(* Spec: widgets invoked from the interactive thread, workers completing *)

NameIdle ==
    /\ base = ""
    /\ new_suffix = ""
    /\ nice = ""
    /\ raised = FALSE
    /\ depth = 0

AsyncInit ==
    /\ layers = InitialLayers
    /\ ops = <<>>
    /\ worker = <<>>
    /\ pc = <<>>
    /\ future = <<>>
    /\ queue = <<>>
    /\ gui = 0
    /\ info = <<>>
    /\ dag = <<>>
    /\ dagOp = <<>>
    /\ completed = <<>>
    /\ sync_errors = {}

\* no function of the functional layer has been called
SegIdle ==
    /\ call = [func |-> "none"]
    /\ heap = <<>>
    /\ trace = <<>>
    /\ outcome = [status |-> "idle"]

Init == NameIdle /\ AsyncInit /\ SegIdle

\* A widget is run on any layer of the kind it asks for as the input it names
\* its output after; its other inputs are layers loaded at the start.
Agglomerate ==
    /\ Len(ops) < MaxOps
    /\ \E image \in ImageLayers, labels \in LabelsLayers \cap InitialLayers, mode \in ModeChoices :
        widget_agglomeration(image, labels, mode)

LiftedMulticut ==
    /\ Len(ops) < MaxOps
    /\ \E image \in ImageLayers, nuclei \in InitialLayers, labels \in LabelsLayers \cap InitialLayers :
        widget_lifted_multicut(image, nuclei, labels)

Watershed ==
    /\ Len(ops) < MaxOps
    /\ \E image \in ImageLayers, choice \in WatershedChoices :
        widget_dt_ws(image, choice[1], choice[2])

SimpleWatershed ==
    /\ Len(ops) < MaxOps
    /\ \E image \in ImageLayers, stacked \in StackedChoices :
        widget_simple_dt_ws(image, stacked)

NucleiSegFix ==
    /\ Len(ops) < MaxOps
    /\ \E cell \in LabelsLayers, nuclei \in LabelsLayers \cap InitialLayers :
        \/ \E boundary \in ImageLayers :
               widget_fix_over_under_segmentation_from_nuclei(cell, nuclei, TRUE, boundary)
        \/ widget_fix_over_under_segmentation_from_nuclei(cell, nuclei, FALSE, cell)

Next ==
    \/ Agglomerate
    \/ LiftedMulticut
    \/ Watershed
    \/ SimpleWatershed
    \/ NucleiSegFix
    \/ \E o \in 1..Len(ops) :
        \/ WorkerReturn(o)
        \/ EmitReturned(o)
        \/ WorkerRaise(o)
        \/ OnDoneNotify(o)
        \/ OnDoneAddStep(o)
        \/ OnDoneSetResult(o)

Spec == Init /\ [][Next]_vars

-----------------------------------------------------------------------------
(* ReplaySpec: watershed and nuclei-fix widgets chained on each other's     *)
(* output, every computation returning                                     *)

ReplayWatershed ==
    /\ Len(ops) < MaxReplayOps
    /\ \E image \in ImageLayers, stacked \in StackedChoices :
          widget_simple_dt_ws(image, stacked)

ReplayNucleiSegFix ==
    /\ Len(ops) < MaxReplayOps
    /\ \E cell \in LabelsLayers, nuclei \in {l \in LabelsLayers : l \in InitialLayers} :
          widget_fix_over_under_segmentation_from_nuclei(cell, nuclei, FALSE, cell)

ReplayNext ==
    \/ ReplayWatershed
    \/ ReplayNucleiSegFix
    \/ \E o \in 1..Len(ops) :
        \/ WorkerReturn(o)
        \/ EmitReturned(o)
        \/ OnDoneNotify(o)
        \/ OnDoneAddStep(o)
        \/ OnDoneSetResult(o)

ReplaySpec == Init /\ [][ReplayNext]_vars

-----------------------------------------------------------------------------
(* WrapperSpec: start_threading_process called directly, with and without  *)
(* skip_dag                                                                *)

\* the functions handed to the wrapper
DirectFuncs == {"image_gaussian_smoothing", "relabel_segmentation"}

DirectStatics == {[sigma |-> "1.0"], <<>>}

\* the layers whose data is handed to the wrapper: the image and the labels
DirectLayers == {layer \in InitialLayers : layer.type \in {"image", "labels"}}

\* a caller on the interactive thread wraps func around one layer's data; the
\* out_name is the caller's, and start_threading_process never looks at the
\* out_names of earlier calls, so two calls may share one
DirectCall ==
    /\ Len(ops) < MaxDirectOps
    /\ WidgetReady
    /\ \E func \in DirectFuncs, layer \in DirectLayers, statics_kwargs \in DirectStatics,
          skip_dag \in BOOLEAN :
          LET out_name == layer.name \o "_" \o func
          IN  start_threading_process(
                  func,
                  <<<<"data", Data(layer)>>>>,
                  statics_kwargs,
                  out_name,
                  <<layer.name>>,
                  layer_properties(out_name, layer.scale, layer.metadata),
                  layer.type,
                  func,
                  skip_dag)

WrapperNext ==
    \/ DirectCall
    \/ \E o \in 1..Len(ops) :
        \/ WorkerReturn(o)
        \/ EmitReturned(o)
        \/ WorkerRaise(o)
        \/ OnDoneNotify(o)
        \/ OnDoneAddStep(o)
        \/ OnDoneSetResult(o)

WrapperSpec == Init /\ [][WrapperNext]_vars

-----------------------------------------------------------------------------
(* NameSpec: chains of build_nice_name calls, each on the previous result *)

NameInit ==
    /\ base \in RootNames
    /\ new_suffix = ""
    /\ nice = base
    /\ raised = FALSE
    /\ depth = 0
    /\ AsyncInit
    /\ SegIdle

\* one widget computes its out_name from the layer produced by the previous one
ApplyName(suffix) ==
    /\ depth < MaxChain
    /\ ~raised
    /\ LET r == build_nice_name(nice, suffix)
       IN  /\ base' = nice
           /\ new_suffix' = suffix
           /\ raised' = r.raises
           /\ nice' = IF r.raises THEN nice ELSE r.name
    /\ depth' = depth + 1
    /\ UNCHANGED <<asyncVars, segVars, sync_errors>>

NameNext == \E suffix \in WidgetSuffixes : ApplyName(suffix)

NameSpec == NameInit /\ [][NameNext]_vars

\* the same chains, started from a root name that contains no underscore
PlainNameInit ==
    /\ base \in PlainRootNames
    /\ new_suffix = ""
    /\ nice = base
    /\ raised = FALSE
    /\ depth = 0
    /\ AsyncInit
    /\ SegIdle

PlainNameSpec == PlainNameInit /\ [][NameNext]_vars

-----------------------------------------------------------------------------
(* The functional layer: arrays                                             *)
(*                                                                         *)
(* A volume is a line of VolLen voxels held with shape (1, VolLen) or      *)
(* (1, 1, VolLen); `data` is the flattened array, so two voxels are        *)
(* neighbours iff their indices differ by one.  The values of a            *)
(* probability map are not interpreted: what the libraries compute from    *)
(* them is chosen among all their possible results.                        *)

\* Python's None, for an argument that was not passed
None == 0

Shape2D == <<1, VolLen>>
Shape3D == <<1, 1, VolLen>>
ShapeLonger == <<1, 1, VolLen + 1>>

RECURSIVE Size(_)
Size(shape) == IF shape = <<>> THEN 1 ELSE Head(shape) * Size(Tail(shape))

ndim(a) == Len(a.shape)

SetMax(S) == CHOOSE x \in S : \A y \in S : y <= x

Abs(x) == IF x < 0 THEN -x ELSE x

\* a probability map of the given shape
Pmaps(shape) ==
    [shape |-> shape, dtype |-> "float32", data |-> [i \in 1..Size(shape) |-> "p"]]

\* a label array of the given shape
Labels(shape, data) == [shape |-> shape, dtype |-> "uint32", data |-> data]

NumRuns(data) == 1 + Cardinality({i \in 1..(Len(data) - 1) : data[i] # data[i + 1]})

\* labels numbered in the order a scan of the array meets them
IsScanOrdered(data) ==
    /\ data[1] = 1
    /\ \A i \in 2..Len(data) : data[i] <= 1 + SetMax({data[j] : j \in 1..(i - 1)})

\* the superpixel and segmentation maps of n voxels the functions are called on
LabelMaps(n) ==
    {data \in [1..n -> 1..MaxLabel] : IsScanOrdered(data) /\ NumRuns(data) <= MaxRuns}

\* ndarray.astype: a new array of the given type; the labels held here,
\* 0..MaxLabel + 1, are kept by every integer type
astype(a, dtype) == [shape |-> a.shape, dtype |-> dtype, data |-> a.data]

\* a[None, ...]
expand_dims(a) == [a EXCEPT !.shape = <<1>> \o a.shape]

\* the post_minsize arguments passed
MinSizes == {-1, 0, 3}

\* the edge costs compute_mc_costs can return (positive: attractive)
CostValues == {-2, -1, 1}

\* np.unique(.., return_counts=True): the count of one value
Count(data, l) == Cardinality({i \in DOMAIN data : data[i] = l})

-----------------------------------------------------------------------------
(* The functional layer: what the libraries the functions call return *)

\* elf compute_rag: one node per label 0..max, an edge between two labels
\* that have neighbouring voxels
compute_rag(superpixels) ==
    [shape |-> superpixels.shape,
     numberOfNodes |-> SetMax(Range(superpixels.data)) + 1,
     uvIds |-> {{superpixels.data[i], superpixels.data[i + 1]} :
                  i \in {j \in 1..(Len(superpixels.data) - 1) :
                           superpixels.data[j] # superpixels.data[j + 1]}}]

RECURSIVE Reach(_, _)
Reach(S, joined) ==
    LET more == S \cup UNION {e \in joined : e \cap S # {}}
    IN  IF more = S THEN S ELSE Reach(more, joined)

\* the node labelings a (lifted) multicut or agglomeration solver can return:
\* the components left by joining any set of edges, each named by its
\* smallest node
NodeLabelings(rag) ==
    {[n \in 0..(rag.numberOfNodes - 1) |-> Min(Reach({n}, joined))] :
        joined \in SUBSET rag.uvIds}

\* nifty.tools.take(node_labels, superpixels) and
\* project_node_labels_to_pixels(rag, node_labels)
take(node_labels, superpixels) ==
    [shape |-> superpixels.shape,
     dtype |-> "uint64",
     data |-> [i \in DOMAIN superpixels.data |-> node_labels[superpixels.data[i]]]]

\* the labelings a watershed or an agglomeration of the voxel grid can
\* return: any split of the line into runs, numbered from 1
GridLabelings(n) ==
    {[i \in 1..n |-> 1 + Cardinality({b \in B : b < i})] : B \in SUBSET (1..(n - 1))}

NextSeed(seeds, i) ==
    LET later == {j \in i..Len(seeds) : seeds[j] # 0}
    IN  IF later = {} THEN 0 ELSE seeds[Min(later)]

\* vigra watershedsNew(hmap, seeds=seeds, out=seeds): every voxel labelled 0
\* gets the label of a seed region that grows onto it; which of two competing
\* regions reaches it first depends on the height map.  No seed: nothing grows.
RECURSIVE Grow(_, _, _)
Grow(seeds, i, prev) ==
    IF i > Len(seeds) THEN {<<>>}
    ELSE LET reach == {prev, NextSeed(seeds, i)} \ {0}
             choices == IF seeds[i] # 0 THEN {seeds[i]}
                        ELSE IF reach = {} THEN {0}
                        ELSE reach
         IN  UNION {{<<c>> \o rest : rest \in Grow(seeds, i + 1, c)} : c \in choices}

watershedsNew(seeds) == Grow(seeds, 1, 0)

\* elf apply_size_filter(segmentation, input_, size_filter): the labels whose
\* voxel count (np.unique) is below size_filter are set to 0 and refilled by
\* the seeded watershed, in place in `segmentation`
apply_size_filter(segmentation, size_filter) ==
    LET filter_ids == {l \in Range(segmentation) : Count(segmentation, l) < size_filter}
        seeds == [i \in DOMAIN segmentation |->
                    IF segmentation[i] \in filter_ids THEN 0 ELSE segmentation[i]]
    IN  watershedsNew(seeds)

\* skimage measure.label: connected regions of equal value numbered from 1
\* in scan order, 0 kept as background
label(data) ==
    [i \in DOMAIN data |->
        IF data[i] = 0 THEN 0
        ELSE Cardinality({j \in 1..i : /\ data[j] # 0
                                       /\ (j = 1 \/ data[j - 1] # data[j])})]

-----------------------------------------------------------------------------
(* segmentation/functional/segmentation.py, labelprocessing.py *)

Returned(h, tr, ref) ==
    /\ heap' = h
    /\ trace' = tr
    /\ outcome' = [status |-> "returned", ref |-> ref]
    /\ UNCHANGED <<call, nameVars, asyncVars, sync_errors>>

Raised(tr, error) ==
    /\ trace' = tr
    /\ outcome' = [status |-> "raised", error |-> error]
    /\ UNCHANGED <<heap, call, nameVars, asyncVars, sync_errors>>

\* the size threshold run whatever post_minsize is
size_threshold_always(tr, segmentation, post_minsize) ==
    LET h1 == Append(heap, segmentation)
        copy == astype(segmentation, "uint32")
    IN  \E out \in apply_size_filter(copy.data, post_minsize) :
            LET h2 == Append(h1, [copy EXCEPT !.data = out])
            IN  Returned(h2,
                         Append(tr, [fn |-> "apply_size_filter",
                                     size_filter |-> post_minsize]),
                         Len(h2))

\* lines 122-124, 159-163, 194-196, 225-227: segmentation is the array the
\* solver's labeling was written to; the filter works on a uint32 copy of it
size_threshold(tr, segmentation, post_minsize) ==
    LET h1 == Append(heap, segmentation)
        copy == astype(segmentation, "uint32")
    IN  IF post_minsize > 0
        THEN \E out \in apply_size_filter(copy.data, post_minsize) :
                LET h2 == Append(h1, [copy EXCEPT !.data = out])
                IN  Returned(h2,
                             Append(tr, [fn |-> "apply_size_filter",
                                         size_filter |-> post_minsize]),
                             Len(h2))
        ELSE Returned(h1, tr, Len(h1))

\* lines 25-74
dt_watershed(boundary_pmaps, stacked) ==
    LET pmaps == astype(heap[boundary_pmaps], "float32")
        fn == IF stacked THEN "stacked_watershed" ELSE "distance_transform_watershed"
    IN  \E ws \in GridLabelings(Size(pmaps.shape)) :
            Returned(Append(heap, [shape |-> pmaps.shape, dtype |-> "uint64", data |-> ws]),
                     <<[fn |-> fn, shape |-> pmaps.shape, out |-> ws]>>,
                     Len(heap) + 1)

\* lines 77-124
gasp(boundary_pmaps, superpixels, gasp_linkage_criteria, post_minsize) ==
    IF superpixels # None /\ heap[boundary_pmaps].shape # heap[superpixels].shape
    THEN Raised(<<>>, "AssertionError")
    ELSE LET sp == IF superpixels = None THEN None
                   ELSE IF ndim(heap[superpixels]) = 2 THEN expand_dims(heap[superpixels])
                   ELSE heap[superpixels]
             promoted == IF ndim(heap[boundary_pmaps]) = 2
                         THEN expand_dims(heap[boundary_pmaps])
                         ELSE heap[boundary_pmaps]
             pmaps == astype(promoted, "float32")
             results == IF superpixels = None
                        THEN GridLabelings(Size(pmaps.shape))
                        ELSE {take(node_labels, sp).data :
                                node_labels \in NodeLabelings(compute_rag(sp))}
         IN  \E out \in results :
                 size_threshold(
                     <<[fn |-> "GaspFromAffinities",
                        linkage_criteria |-> gasp_linkage_criteria,
                        shape |-> pmaps.shape,
                        out |-> out]>>,
                     [shape |-> pmaps.shape, dtype |-> "uint64", data |-> out],
                     post_minsize)

\* lines 127-137
mutex_ws(boundary_pmaps, superpixels, post_minsize) ==
    gasp(boundary_pmaps, superpixels, "mutex_watershed", post_minsize)

\* lines 140-163; compute_mc_costs accumulates boundary_pmaps over the edges
\* of the graph and fails on a map of another shape
multicut(boundary_pmaps, superpixels, post_minsize) ==
    LET rag == compute_rag(heap[superpixels])
        t1 == <<[fn |-> "compute_rag", shape |-> rag.shape]>>
        pmaps == astype(heap[boundary_pmaps], "float32")
        t2 == Append(t1, [fn |-> "compute_mc_costs", shape |-> pmaps.shape])
    IN  IF pmaps.shape # rag.shape
        THEN Raised(t2, "RuntimeError")
        ELSE \E node_labels \in NodeLabelings(rag) :
                LET segmentation == take(node_labels, heap[superpixels])
                IN  size_threshold(
                        t2 \o <<[fn |-> "multicut_kernighan_lin",
                                 shape |-> rag.shape,
                                 out |-> segmentation.data]>>,
                        segmentation,
                        post_minsize)

\* lines 166-196
lifted_multicut_from_nuclei_pmaps(boundary_pmaps, nuclei_pmaps, superpixels, post_minsize) ==
    LET rag == compute_rag(heap[superpixels])
        t1 == <<[fn |-> "compute_rag", shape |-> rag.shape]>>
        pmaps == astype(heap[boundary_pmaps], "float32")
        t2 == Append(t1, [fn |-> "compute_mc_costs", shape |-> pmaps.shape])
        nuclei == astype(heap[nuclei_pmaps], "float32")
        t3 == Append(t2, [fn |-> "lifted_problem_from_probabilities",
                          assignment_threshold |-> "0.9", graph_depth |-> 4])
    IN  IF pmaps.shape # rag.shape
        THEN Raised(t2, "RuntimeError")
        ELSE IF nuclei.shape # rag.shape
        THEN Raised(t3, "RuntimeError")
        ELSE \E node_labels \in NodeLabelings(rag) :
                LET segmentation == take(node_labels, heap[superpixels])
                IN  size_threshold(
                        t3 \o <<[fn |-> "lifted_multicut_kernighan_lin",
                                 shape |-> rag.shape,
                                 out |-> segmentation.data]>>,
                        segmentation,
                        post_minsize)

\* line 210: max_cost = np.abs(np.max(costs))
max_cost(costs) == Abs(SetMax({costs[e] : e \in DOMAIN costs}))

\* lines 199-227; costs holds one cost per edge of the graph, np.max of no
\* cost at all raises ValueError
lifted_multicut_from_nuclei_segmentation(boundary_pmaps, nuclei_seg, superpixels, post_minsize) ==
    LET rag == compute_rag(heap[superpixels])
        t1 == <<[fn |-> "compute_rag", shape |-> rag.shape]>>
        pmaps == astype(heap[boundary_pmaps], "float32")
    IN  IF pmaps.shape # rag.shape
        THEN Raised(Append(t1, [fn |-> "compute_mc_costs", shape |-> pmaps.shape]),
                    "RuntimeError")
        ELSE \E costs \in [rag.uvIds -> CostValues] :
            LET t2 == Append(t1, [fn |-> "compute_mc_costs", shape |-> pmaps.shape,
                                  out |-> costs])
            IN  IF rag.uvIds = {}
                THEN Raised(t2, "ValueError")
                ELSE
                LET t3 == Append(t2, [fn |-> "lifted_problem_from_segmentation",
                                      overlap_threshold |-> "0.2",
                                      graph_depth |-> 4,
                                      same_segment_cost |-> 5 * max_cost(costs),
                                      different_segment_cost |-> (-5) * max_cost(costs)])
                IN  IF heap[nuclei_seg].shape # rag.shape
                    THEN Raised(t3, "RuntimeError")
                    ELSE \E node_labels \in NodeLabelings(rag) :
                            LET segmentation == take(node_labels, heap[superpixels])
                            IN  size_threshold(
                                    t3 \o <<[fn |-> "lifted_multicut_kernighan_lin",
                                             shape |-> rag.shape,
                                             out |-> segmentation.data]>>,
                                    segmentation,
                                    post_minsize)

\* labelprocessing.py lines 5-10
relabel_segmentation(segmentation_image) ==
    Returned(Append(heap, [shape |-> heap[segmentation_image].shape,
                           dtype |-> "int64",
                           data |-> label(heap[segmentation_image].data)]),
             <<[fn |-> "measure.label"]>>,
             Len(heap) + 1)

\* labelprocessing.py lines 13-17: `segmentation_image += 1` writes into the
\* caller's array; np.argmax takes the first of the most frequent values
set_background_to_value(segmentation_image, value) ==
    LET incremented == [i \in DOMAIN heap[segmentation_image].data |->
                          heap[segmentation_image].data[i] + 1]
        h1 == [heap EXCEPT ![segmentation_image].data = incremented]
        idx == Range(incremented)
        most == SetMax({Count(incremented, l) : l \in idx})
        bg_idx == Min({l \in idx : Count(incremented, l) = most})
        out == [i \in DOMAIN incremented |->
                   IF incremented[i] = bg_idx THEN value ELSE incremented[i]]
    IN  Returned(Append(h1, [shape |-> heap[segmentation_image].shape,
                             dtype |-> "uint32",
                             data |-> out]),
                 <<[fn |-> "np.where"]>>,
                 Len(heap) + 1)

-----------------------------------------------------------------------------
(* SegSpec: one call of a function of the functional layer *)

\* (boundary map, superpixels, nuclei map) shapes: agreeing in 2D and in 3D,
\* the boundary map of another rank or length, the nuclei map of another rank
ShapeTriples ==
    { <<Shape2D, Shape2D, Shape2D>>,
      <<Shape3D, Shape3D, Shape3D>>,
      <<Shape3D, Shape2D, Shape2D>>,
      <<ShapeLonger, Shape3D, Shape3D>>,
      <<Shape3D, Shape3D, Shape2D>> }

ShapePairs == {<<s[1], s[2]>> : s \in ShapeTriples}

Call(func, boundary_pmaps, superpixels, nuclei, segmentation_image, post_minsize, stacked, value) ==
    [func |-> func,
     boundary_pmaps |-> boundary_pmaps,
     superpixels |-> superpixels,
     nuclei |-> nuclei,
     segmentation_image |-> segmentation_image,
     post_minsize |-> post_minsize,
     stacked |-> stacked,
     value |-> value]

\* the calls made on the label maps `maps`, each with the arrays the caller holds
SegInputs(maps) ==
    {[call |-> Call(func, 1, 2, None, None, k, FALSE, 0),
      heap |-> <<Pmaps(s[1]), Labels(s[2], d)>>] :
        func \in {"gasp", "mutex_ws", "multicut"}, s \in ShapePairs,
        d \in maps, k \in MinSizes}
    \cup
    {[call |-> Call(func, 1, None, None, None, k, FALSE, 0),
      heap |-> <<Pmaps(shape)>>] :
        func \in {"gasp", "mutex_ws"}, shape \in {Shape2D, Shape3D}, k \in MinSizes}
    \cup
    {[call |-> Call("lifted_multicut_from_nuclei_pmaps", 1, 2, 3, None, k, FALSE, 0),
      heap |-> <<Pmaps(s[1]), Labels(s[2], d), Pmaps(s[3])>>] :
        s \in ShapeTriples, d \in maps, k \in MinSizes}
    \cup
    {[call |-> Call("lifted_multicut_from_nuclei_segmentation", 1, 2, 3, None, k, FALSE, 0),
      heap |-> <<Pmaps(s[1]), Labels(s[2], d), Labels(s[3], [i \in 1..Size(s[3]) |-> 1])>>] :
        s \in ShapeTriples, d \in maps, k \in MinSizes}
    \cup
    {[call |-> Call("dt_watershed", 1, None, None, None, 0, stacked, 0),
      heap |-> <<Pmaps(shape)>>] :
        shape \in {Shape2D, Shape3D}, stacked \in BOOLEAN}
    \cup
    {[call |-> Call("relabel_segmentation", None, None, None, 1, 0, FALSE, 0),
      heap |-> <<Labels(shape, d)>>] :
        shape \in {Shape2D, Shape3D}, d \in maps}
    \cup
    {[call |-> Call("set_background_to_value", None, None, None, 1, 0, FALSE, value),
      heap |-> <<Labels(shape, d)>>] :
        shape \in {Shape2D, Shape3D}, d \in maps, value \in {0, 1}}

SegInit ==
    /\ NameIdle
    /\ AsyncInit
    /\ \E s \in SegInputs(LabelMaps(VolLen)) : call = s.call /\ heap = s.heap
    /\ trace = <<>>
    /\ outcome = [status |-> "pending"]

Pending(func) == outcome.status = "pending" /\ call.func = func

CallDtWatershed ==
    /\ Pending("dt_watershed")
    /\ dt_watershed(call.boundary_pmaps, call.stacked)

CallGasp ==
    /\ Pending("gasp")
    /\ gasp(call.boundary_pmaps, call.superpixels, "average", call.post_minsize)

CallMutexWs ==
    /\ Pending("mutex_ws")
    /\ mutex_ws(call.boundary_pmaps, call.superpixels, call.post_minsize)

CallMulticut ==
    /\ Pending("multicut")
    /\ multicut(call.boundary_pmaps, call.superpixels, call.post_minsize)

CallLiftedFromPmaps ==
    /\ Pending("lifted_multicut_from_nuclei_pmaps")
    /\ lifted_multicut_from_nuclei_pmaps(call.boundary_pmaps, call.nuclei,
                                         call.superpixels, call.post_minsize)

CallLiftedFromSegmentation ==
    /\ Pending("lifted_multicut_from_nuclei_segmentation")
    /\ lifted_multicut_from_nuclei_segmentation(call.boundary_pmaps, call.nuclei,
                                                call.superpixels, call.post_minsize)

CallRelabelSegmentation ==
    /\ Pending("relabel_segmentation")
    /\ relabel_segmentation(call.segmentation_image)

CallSetBackgroundToValue ==
    /\ Pending("set_background_to_value")
    /\ set_background_to_value(call.segmentation_image, call.value)

SegNext ==
    \/ CallDtWatershed
    \/ CallGasp
    \/ CallMutexWs
    \/ CallMulticut
    \/ CallLiftedFromPmaps
    \/ CallLiftedFromSegmentation
    \/ CallRelabelSegmentation
    \/ CallSetBackgroundToValue

SegSpec == SegInit /\ [][SegNext]_vars

-----------------------------------------------------------------------------
(* Properties of the asynchronous wrapper and the DAG *)

Ops == 1..Len(ops)

\* on_done of call o has called add_step
HasStep(o) == \E k \in 1..Len(dagOp) : dagOp[k] = o

\* the call whose add_step wrote the entry now at position k of the DAG: the
\* last call recorded under that entry's output key
EntryOp(k) ==
    LET same == {i \in 1..Len(dagOp) : ops[dagOp[i]].out_name = dag[k].output_key}
    IN  dagOp[CHOOSE i \in same : \A j \in same : j <= i]

\* the step on_done records for call o
StepOf(o) ==
    [function |-> IF ops[o].skip_dag THEN "identity" ELSE ops[o].func,
     input_keys |-> ops[o].input_keys,
     output_key |-> ops[o].out_name,
     static_params |-> ops[o].statics_kwargs,
     step_name |-> ops[o].step_name]

IsCompleteInfo(m) == EndsWith(m, " computation complete")

CompleteInfos == SelectSeq(info, IsCompleteInfo)

\* C1: for any sequence of widget operations applied to a root layer and to
\* layers produced by earlier operations, the output names computed by
\* build_nice_name are pairwise distinct, so no two completed operations are
\* recorded in the DAG under the same output key.
C1_DistinctOutputKeys ==
    \A i, j \in 1..Len(dagOp) :
        i /= j => ops[dagOp[i]].out_name /= ops[dagOp[j]].out_name

\* C4: on_done issues the completion notification, then appends the DAG
\* step, then fulfils the future with (result, layer_kwarg, layer_type): every
\* add_step is preceded by its notification, and in every state where a future
\* is fulfilled the DAG contains that operation's step.
C4_NotifyRecordFulfil ==
    /\ Len(CompleteInfos) >= Len(dagOp)
    /\ \A k \in 1..Len(dagOp) : CompleteInfos[k] = CompleteInfo(ops[dagOp[k]].step_name)
    /\ \A o \in Ops :
          /\ HasStep(o) => pc[o] \in {"recorded", "done"}
          /\ future[o].state = "finished" =>
                /\ HasStep(o)
                /\ \E k \in 1..Len(dag) : dag[k] = StepOf(o)
                /\ future[o].result
                     = <<Result(ops[o]), ops[o].layer_kwarg, ops[o].layer_type>>

\* no worker is running and no completion is waiting to be handled
Quiescent ==
    /\ gui = 0
    /\ queue = <<>>
    /\ \A o \in Ops : worker[o] \notin {"running", "finished"}

\* C5: if the function raises in the worker, the future reaches a failed
\* state carrying the error; no dispatched operation's future stays pending
\* forever.  Once nothing is running and nothing is queued no future can
\* change any more, so by then every future must be resolved.
C5_FailureReachesFuture ==
    Quiescent =>
        \A o \in Ops :
            /\ future[o].state /= "pending"
            /\ worker[o] = "errored" => future[o].state = "failed"

\* C6: an operation whose computation raises never adds a step: every
\* recorded step belongs to a call whose computation returned, and the
\* failure itself leaves the DAG unchanged.
C6_FailedNotRecorded ==
    /\ [](\A k \in 1..Len(dagOp) :
            /\ worker[dagOp[k]] = "returned"
            /\ \E c \in 1..Len(completed) : completed[c] = dagOp[k])
    /\ [](\A k \in 1..Len(dag) : worker[EntryOp(k)] = "returned" /\ dag[k] = StepOf(EntryOp(k)))
    /\ [](\A o \in Ops : worker[o] = "errored" => ~HasStep(o) /\ pc[o] = "idle")
    /\ [][(\E o \in Ops : worker[o] = "running" /\ worker'[o] = "errored")
            => dag' = dag /\ dagOp' = dagOp]_vars

\* one call failed, the other was recorded, and everything has settled
C6_Witness ==
    /\ Quiescent
    /\ \E o, p \in Ops :
          /\ worker[o] = "errored"
          /\ HasStep(p)
          /\ Len(dag) = 1

\* position of call o in the order the computations returned
CompletedAt(o) == CHOOSE c \in 1..Len(completed) : completed[c] = o

\* the only call recorded under the output key of entry k is its own
OnlyWriter(k) ==
    Cardinality({i \in 1..Len(dagOp) : ops[dagOp[i]].out_name = dag[k].output_key}) = 1

\* C7: the order of the steps in the DAG is the order in which the
\* computations completed, not the order of dispatch: of two recorded
\* operations, each the only one under its output key, the one whose
\* computation returned first has the earlier step.
C7_CompletionOrder ==
    \A i, j \in 1..Len(dag) :
        (/\ OnlyWriter(i)
         /\ OnlyWriter(j)
         /\ CompletedAt(EntryOp(i)) < CompletedAt(EntryOp(j))) => i < j

\* every completion has been handled by on_done
AllHandled == \A c \in 1..Len(completed) : pc[completed[c]] = "done"

\* C8: the DAG is append-only with no lost updates: once the completions
\* have been handled every completed operation has its own step and there
\* are as many steps as completed operations, and add_step never removes,
\* replaces or changes an earlier step.
C8_AppendOnly ==
    /\ [](AllHandled =>
            /\ Len(dag) = Len(completed)
            /\ \A c \in 1..Len(completed) :
                  \E k \in 1..Len(dag) : EntryOp(k) = completed[c] /\ dag[k] = StepOf(completed[c]))
    /\ [][/\ Len(dag') >= Len(dag)
          /\ SubSeq(dag', 1, Len(dag)) = dag]_vars

\* C10: start_threading_process returns while the future is unfulfilled and
\* before this invocation's step exists; the step is appended and the future
\* fulfilled only by a later completion event.
C10_ReturnsBeforeCompletion ==
    /\ [][Len(ops') > Len(ops) =>
            /\ future'[Len(ops')] = PendingFuture
            /\ worker'[Len(ops')] = "running"
            /\ dag' = dag
            /\ \A k \in 1..Len(dagOp') : dagOp'[k] /= Len(ops')]_vars
    /\ [](\A o \in Ops :
            (HasStep(o) \/ future[o].state /= "pending") =>
                worker[o] = "returned" /\ pc[o] /= "idle")
    /\ [][(dag' /= dag \/ \E o \in Ops : future'[o] /= future[o]) =>
            Len(ops') = Len(ops) /\ gui + gui' > 0]_vars

\* the second call has returned its pending future while its computation is
\* still running; the first call has since been completed
C10_Witness ==
    /\ Len(ops) = 2
    /\ worker[2] = "running"
    /\ future[2] = PendingFuture
    /\ ~HasStep(2)
    /\ future[1].state = "finished"

IsStartedInfo(m) == EndsWith(m, " computation started")

\* position in info of the n-th message of its kind
StartedPos(n) ==
    CHOOSE i \in 1..Len(info) :
        /\ IsStartedInfo(info[i])
        /\ Cardinality({j \in 1..i : IsStartedInfo(info[j])}) = n

CompletePos(n) ==
    CHOOSE i \in 1..Len(info) :
        /\ IsCompleteInfo(info[i])
        /\ Cardinality({j \in 1..i : IsCompleteInfo(info[j])}) = n

\* call b was made on the layer that call a delivered: on_done of a (the
\* k-th to run) had started before b was dispatched (as the b-th call)
TookOutputOf(b, a) ==
    /\ ops[a].out_name \in Range(ops[b].input_keys)
    /\ \E k \in 1..Len(dagOp) :
          /\ dagOp[k] = a
          /\ CompletePos(k) < StartedPos(b)

InitialNames == {l.name : l \in InitialLayers}

\* A -> B -> C, computed from the initial layers, all three completed
Chained(a, b, c) ==
    /\ pc[a] = "done" /\ pc[b] = "done" /\ pc[c] = "done"
    /\ TookOutputOf(b, a)
    /\ TookOutputOf(c, b)
    /\ Range(ops[a].input_keys) \subseteq InitialNames
    /\ Range(ops[b].input_keys) \subseteq InitialNames \cup {ops[a].out_name}
    /\ Range(ops[c].input_keys) \subseteq InitialNames \cup {ops[a].out_name, ops[b].out_name}

\* every step of S comes after the steps of S that produce its inputs
InDependencyOrder(d, S) ==
    \A i, j \in S : d[j].output_key \in Range(d[i].input_keys) => j < i

\* C9: after three chained operations A -> B -> C have completed, possibly
\* interleaved with other completed operations, walking backward from C's
\* output key through the recorded input_keys yields exactly the steps
\* {A, B, C}, each after the steps producing its inputs, and no other step.
C9_ReplaySubgraph ==
    \A a, b, c \in Ops :
        Chained(a, b, c) =>
            LET S == Subgraph(dag, ops[c].out_name)
            IN  /\ Cardinality(S) = 3
                /\ {dag[k] : k \in S} = {StepOf(a), StepOf(b), StepOf(c)}
                /\ InDependencyOrder(dag, S)

-----------------------------------------------------------------------------
(* Properties of output-name versioning *)

Bracketed(n) == "[" \o IntStr(n) \o "]"

\* the base is 'X_S': its last '_'-separated segment is exactly the suffix
EndsWithSuffix(b, suffix) == EndsWith(b, "_" \o suffix)

\* the base is 'X_S[n]' for the decimal numeral n
EndsWithVersion(b, suffix, n) == EndsWith(b, "_" \o suffix \o Bracketed(n))

\* C2: when the base already ends with the operation suffix, build_nice_name
\* appends or increments a bracketed counter: 'X_S' gives 'X_S[1]' and
\* 'X_S[n]' (n >= 1) gives 'X_S[n+1]'; in particular 'raw_dtWS' with 'dtWS'
\* gives 'raw_dtWS[1]', and 'raw_dtWS[1]' with 'dtWS' gives 'raw_dtWS[2]'.
C2_VersionIncrement ==
    /\ depth > 0 =>
          /\ EndsWithSuffix(base, new_suffix) =>
                ~raised /\ nice = base \o "[1]"
          /\ \A n \in 1..MaxVersion :
                EndsWithVersion(base, new_suffix, n) =>
                    /\ ~raised
                    /\ nice = SubSeq(base, 1, Len(base) - Len(Bracketed(n)))
                                  \o Bracketed(n + 1)
    /\ build_nice_name("raw_dtWS", "dtWS") = [raises |-> FALSE, name |-> "raw_dtWS[1]"]
    /\ build_nice_name("raw_dtWS[1]", "dtWS") = [raises |-> FALSE, name |-> "raw_dtWS[2]"]

\* the chain raw -> raw_dtWS -> raw_dtWS[1] -> raw_dtWS[2] has been built
C2_Witness ==
    /\ depth = 3
    /\ base = "raw_dtWS[1]"
    /\ new_suffix = "dtWS"
    /\ nice = "raw_dtWS[2]"

\* the base neither is 'X_S' nor 'X_S[n]' for any decimal numeral n
NotVersionable(b, suffix) ==
    /\ ~EndsWithSuffix(b, suffix)
    /\ ~\E i \in 1..Len(b) :
          /\ EndsWith(SubSeq(b, 1, i), "_" \o suffix)
          /\ Len(b) >= i + 3
          /\ SubSeq(b, i + 1, i + 1) = "["
          /\ SubSeq(b, Len(b), Len(b)) = "]"
          /\ AllDigits(SubSeq(b, i + 2, Len(b) - 1))

\* C3: when the base does not already end with the operation suffix S
\* (optionally followed by a bracketed counter), build_nice_name returns
\* exactly base + '_' + S, also when the last segment merely contains S as a
\* substring, as for base 'raw_LiftedMultiCut' with S = 'MultiCut'.
C3_FreshSuffix ==
    (depth > 0 /\ NotVersionable(base, new_suffix)) =>
        ~raised /\ nice = base \o "_" \o new_suffix

\* text is '[' + decimal digits + ']'
IsBracketedDecimal(text) ==
    /\ Len(text) >= 3
    /\ SubSeq(text, 1, 1) = "["
    /\ SubSeq(text, Len(text), Len(text)) = "]"
    /\ AllDigits(SubSeq(text, 2, Len(text) - 1))

\* the last '_'-separated segment of a name
LastSegment(name) == Split(name)[Len(Split(name))]

\* the text that follows the first occurrence of the suffix in the segment
AfterMatch(segment, suffix) ==
    Slice(segment, Find(segment, suffix) + Len(suffix), Len(segment))

\* C21: from a root name without an underscore, along every sequence of
\* widget suffixes applied to the previous result, build_nice_name never
\* raises: whenever a suffix is found in the last '_'-separated segment of a
\* name so obtained, the text after the match is empty or a bracketed
\* decimal integer.
C21_ChainNeverRaises ==
    /\ ~raised
    /\ \A suffix \in WidgetSuffixes :
          (Find(nice, "_") /= -1 /\ Find(LastSegment(nice), suffix) /= -1) =>
              \/ AfterMatch(LastSegment(nice), suffix) = ""
              \/ IsBracketedDecimal(AfterMatch(LastSegment(nice), suffix))

\* raw -> raw_LiftedMultiCut -> raw_LiftedMultiCut[1] -> raw_LiftedMultiCut[2]:
\* 'MultiCut' matched inside 'LiftedMultiCut' and its counter parsed again
C21_Witness ==
    /\ depth = 3
    /\ base = "raw_LiftedMultiCut[1]"
    /\ new_suffix = "MultiCut"
    /\ nice = "raw_LiftedMultiCut[2]"
    /\ ~raised

-----------------------------------------------------------------------------
(* Properties of the widgets' dispatch and display metadata *)

\* the type of the layer called `name`
LayerType(name) == (CHOOSE l \in layers : l.name = name).type

IsLiftedCall(o) == ops[o].step_name = "Lifted Multicut Clustering"

\* C11: widget_lifted_multicut starts lifted_multicut_from_nuclei_pmaps for an
\* Image nuclei layer and lifted_multicut_from_nuclei_segmentation for a Labels
\* nuclei layer; for a nuclei layer of any other kind it raises ValueError to
\* its caller and that call starts no worker, returns no future, issues no
\* message and records no DAG step.
C11_NucleiKindDispatch ==
    /\ [](\A o \in Ops : IsLiftedCall(o) =>
            LET kind == LayerType(ops[o].input_keys[2])
            IN  \/ /\ kind = "image"
                   /\ ops[o].func = "lifted_multicut_from_nuclei_pmaps"
                   /\ ops[o].kwargs.nuclei_pmaps = "data:" \o ops[o].input_keys[2]
                \/ /\ kind = "labels"
                   /\ ops[o].func = "lifted_multicut_from_nuclei_segmentation"
                   /\ ops[o].kwargs.nuclei_seg = "data:" \o ops[o].input_keys[2])
    /\ [](\A e \in sync_errors :
            "nuclei" \in DOMAIN e =>
                /\ e.error = "ValueError"
                /\ LayerType(e.nuclei) \notin {"image", "labels"})
    /\ [][sync_errors' # sync_errors =>
            UNCHANGED <<ops, worker, pc, future, queue, info, dag, dagOp, layers>>]_vars

\* a points layer was rejected and both lifted-multicut functions were started
C11_Witness ==
    /\ sync_errors # {}
    /\ \E o \in Ops : ops[o].func = "lifted_multicut_from_nuclei_pmaps"
    /\ \E o \in Ops : ops[o].func = "lifted_multicut_from_nuclei_segmentation"

\* the layer a widget names its output after and takes scale and metadata from
SourceLayer(o) == CHOOSE l \in layers : l.name = ops[o].input_keys[1]

SavedKeys == {"original_voxel_size", "voxel_size_unit", "root_name"}

\* C19: for every widget operation whose future is fulfilled, the output key
\* of its DAG step equals the 'name' of the display metadata in the future's
\* result, and the metadata kept there has only keys among original_voxel_size,
\* voxel_size_unit and root_name that the source layer's metadata had.
C19_DisplayMetadata ==
    \A i \in 1..Len(dagOp) :
        LET o == dagOp[i]
        IN  future[o].state = "finished" =>
                LET layer_kwarg == future[o].result[2]
                IN  /\ DOMAIN layer_kwarg = {"name", "scale", "metadata"}
                    /\ \E k \in 1..Len(dag) :
                          /\ ops[EntryOp(k)].out_name = ops[o].out_name
                          /\ dag[k].output_key = layer_kwarg.name
                    /\ DOMAIN layer_kwarg.metadata \subseteq
                           SavedKeys \cap DOMAIN SourceLayer(o).metadata

\* a fulfilled operation on `raw`, whose metadata has a key that is not kept,
\* and one on `sp`, whose metadata lacks two of the kept keys
C19_Witness ==
    /\ \E o \in Ops : /\ future[o].state = "finished"
                      /\ SourceLayer(o).name = "raw"
                      /\ "original_file" \in DOMAIN SourceLayer(o).metadata
                      /\ DOMAIN future[o].result[2].metadata = SavedKeys
    /\ \E o \in Ops : /\ future[o].state = "finished"
                      /\ SourceLayer(o).name = "sp"
                      /\ DOMAIN future[o].result[2].metadata = {"root_name"}

\* the entry k of d is the step on_done records for call o: under its
\* out_name, with its input keys, static parameters and step name, the
\* function identity when skip_dag is set and func itself when it is not
RecordsCall(d, k, o) ==
    /\ d[k].output_key = ops[o].out_name
    /\ d[k].input_keys = ops[o].input_keys
    /\ d[k].static_params = ops[o].statics_kwargs
    /\ d[k].step_name = ops[o].step_name
    /\ ops[o].skip_dag => d[k].function = "identity"
    /\ ~ops[o].skip_dag => d[k].function = ops[o].func

\* C20: when on_done of an operation runs add_step, with skip_dag set or not,
\* the DAG gets a step under the operation's out_name with its input keys,
\* static parameters and step name; the step's function is identity when
\* skip_dag is set and func itself when it is not.  Every step in the DAG is
\* such a step of the operation last recorded under its key, and every
\* recorded operation has a step under its out_name.
C20_SkipDagRecordsIdentity ==
    /\ [][\A o \in Ops :
            (pc[o] = "notified" /\ pc'[o] = "recorded") =>
                /\ \E k \in 1..Len(dag') : RecordsCall(dag', k, o)
                /\ Len(dag') = Len(dag) + 1
                      \/ \E k \in 1..Len(dag) : dag[k].output_key = ops[o].out_name]_vars
    /\ [](\A k \in 1..Len(dag) : RecordsCall(dag, k, EntryOp(k)))
    /\ [](\A o \in Ops :
            pc[o] \in {"recorded", "done"} =>
                \E k \in 1..Len(dag) : dag[k].output_key = ops[o].out_name)

\* one operation completed with skip_dag set and one without, each with its
\* own step in the DAG
C20_Witness ==
    /\ \E o \in Ops, k \in 1..Len(dag) :
          /\ ops[o].skip_dag /\ pc[o] = "done" /\ ops[o].func # "identity"
          /\ EntryOp(k) = o /\ dag[k].function = "identity"
    /\ \E o \in Ops, k \in 1..Len(dag) :
          /\ ~ops[o].skip_dag /\ pc[o] = "done"
          /\ EntryOp(k) = o /\ dag[k].function = ops[o].func

\* the keyword arguments the worker's function received that are not runtime
\* (data-bearing) arguments
StaticsReceived(o) ==
    LET names == DOMAIN ops[o].kwargs \ Range(Keys(ops[o].runtime_kwargs))
    IN  [name \in names |-> ops[o].kwargs[name]]

\* C22: every step a widget records is replayable positionally: its input
\* keys are as many as the runtime arguments of the call and the i-th key
\* names the layer whose data is the i-th runtime argument; its static
\* parameters are exactly the static keyword arguments the function received;
\* and no parameter name is both a runtime argument and a static parameter.
C22_PositionalReplay ==
    \A k \in 1..Len(dag) :
        LET o == EntryOp(k)
            runtime_kwargs == ops[o].runtime_kwargs
        IN  /\ Len(dag[k].input_keys) = Len(runtime_kwargs)
            /\ \A i \in 1..Len(runtime_kwargs) :
                  \E l \in layers : /\ l.name = dag[k].input_keys[i]
                                    /\ runtime_kwargs[i][2] = Data(l)
            /\ dag[k].static_params = StaticsReceived(o)
            /\ \A name \in DOMAIN dag[k].static_params :
                  ops[o].kwargs[name] = ops[o].statics_kwargs[name]
            /\ Range(Keys(runtime_kwargs)) \cap DOMAIN dag[k].static_params = {}

\* a nuclei fix with a boundary image and a lifted multicut have both been
\* recorded, each with three distinct runtime arguments or a labels nuclei
C22_Witness ==
    /\ \E k \in 1..Len(dag) :
          /\ dag[k].function = "fix_over_under_segmentation_from_nuclei"
          /\ Len(dag[k].input_keys) = 3
          /\ dag[k].input_keys[3] # dag[k].input_keys[1]
          /\ Keys(ops[EntryOp(k)].runtime_kwargs) = <<"cell_seg", "nuclei_seg", "boundary">>
    /\ \E k \in 1..Len(dag) :
          /\ dag[k].function = "lifted_multicut_from_nuclei_segmentation"
          /\ Keys(ops[EntryOp(k)].runtime_kwargs)
                = <<"boundary_pmaps", "nuclei_seg", "superpixels">>

-----------------------------------------------------------------------------
(* Properties of the functional layer *)

\* the operations that label over a superpixel map
GraphFuncs == {"gasp", "mutex_ws", "multicut", "lifted_multicut_from_nuclei_pmaps",
               "lifted_multicut_from_nuclei_segmentation"}

SolverFns == {"GaspFromAffinities", "multicut_kernighan_lin",
              "lifted_multicut_kernighan_lin"}

HasEvent(fns) == \E i \in 1..Len(trace) : trace[i].fn \in fns

ReturnedFrom(funcs) == call.func \in funcs /\ outcome.status = "returned"

\* the array the call returned
ResultArray == heap[outcome.ref]

\* the labeling the solver produced during the call
SolverLabeling == trace[CHOOSE i \in 1..Len(trace) : trace[i].fn \in SolverFns].out

\* the boundary map's shape differs from the superpixels' or the nuclei map's
ShapesDisagree ==
    \/ heap[call.boundary_pmaps].shape # heap[call.superpixels].shape
    \/ /\ call.nuclei # None
       /\ heap[call.boundary_pmaps].shape # heap[call.nuclei].shape

\* C12: when a segmentation operation is given a superpixel or nuclei map
\* whose shape disagrees with the boundary map's, the call ends in an error
\* and has neither built the region adjacency graph nor run a solver.
C12_ShapeMismatchBeforeGraph ==
    ( /\ call.func \in GraphFuncs
      /\ outcome.status \in {"returned", "raised"}
      /\ call.superpixels # None
      /\ ShapesDisagree )
    => /\ outcome.status = "raised"
       /\ ~HasEvent({"compute_rag"} \cup SolverFns)

\* C13: called on a 2D boundary map, a segmentation operation processes a
\* unit-depth 3D volume and returns a label array of the 2D shape it was given.
C13_Restores2DShape ==
    ( /\ ReturnedFrom(GraphFuncs)
      /\ ndim(heap[call.boundary_pmaps]) = 2 )
    => /\ \A i \in 1..Len(trace) :
            "shape" \in DOMAIN trace[i] =>
                trace[i].shape = <<1>> \o heap[call.boundary_pmaps].shape
       /\ ResultArray.shape = heap[call.boundary_pmaps].shape

\* C14: gasp, mutex_ws, multicut and the lifted multicuts call the size
\* filter exactly when post_minsize > 0; with post_minsize <= 0 they return
\* the solver's labeling as it is.
C14_FilterIffPositive ==
    ReturnedFrom(GraphFuncs) =>
        /\ HasEvent({"apply_size_filter"}) <=> call.post_minsize > 0
        /\ call.post_minsize <= 0 => ResultArray.data = SolverLabeling

\* multicut ran the filter and it changed the solver's labeling
C14_Witness ==
    /\ ReturnedFrom({"multicut"})
    /\ call.post_minsize > 0
    /\ HasEvent({"apply_size_filter"})
    /\ ResultArray.data # SolverLabeling

\* the connected region of equal labels voxel i lies in
RegionOf(data, i) ==
    {j \in DOMAIN data :
        \A m \in (IF i <= j THEN i..j ELSE j..i) : data[m] = data[i]}

\* C15: a label volume returned with post_minsize = k > 0 has no connected
\* label region of fewer than k voxels, and the size filter with the same k
\* leaves it as it is.
C15_RegionsAtLeastMinsize ==
    ( ReturnedFrom(GraphFuncs) /\ call.post_minsize > 0 )
    => /\ \A i \in DOMAIN ResultArray.data :
            Cardinality(RegionOf(ResultArray.data, i)) >= call.post_minsize
       /\ apply_size_filter(ResultArray.data, call.post_minsize) = {ResultArray.data}

\* C16: the labeling multicut, gasp and mutex_ws return over a superpixel map
\* has at most as many labels as the map, and gives two voxels of one
\* superpixel the same label.
C16_OnlyCoarsens ==
    ( ReturnedFrom({"multicut", "gasp", "mutex_ws"}) /\ call.superpixels # None )
    => LET sp == heap[call.superpixels].data
           out == ResultArray.data
       IN  /\ Cardinality(Range(out)) <= Cardinality(Range(sp))
           /\ \A i, j \in DOMAIN sp : sp[i] = sp[j] => out[i] = out[j]

\* C17: a call leaves every array the caller holds with the values it had.
C17_InputsNotMutated ==
    [][\A ref \in DOMAIN heap : heap'[ref] = heap[ref]]_vars

\* C18: the same-segment and different-segment lifted costs handed to
\* lifted_problem_from_segmentation have magnitude 5 times the largest
\* magnitude among the edge costs.
C18_LiftedCostDominates ==
    \A i \in 1..Len(trace) :
        trace[i].fn = "lifted_problem_from_segmentation" =>
            LET costs == trace[CHOOSE j \in 1..Len(trace) :
                                 trace[j].fn = "compute_mc_costs"].out
                largest == SetMax({Abs(costs[e]) : e \in DOMAIN costs})
            IN  /\ Abs(trace[i].same_segment_cost) = 5 * largest
                /\ Abs(trace[i].different_segment_cost) = 5 * largest

====
